---- MODULE Spec2Model ----
(***************************************************************************)
(* Model of the obstacle navigation core, Backend/core.py:                 *)
(*   - detection fusion: iou, simple_nms, custom_priority                  *)
(*   - distance annotation: estimate_distance, get_detection_info          *)
(* Detections are records [bbox, label, conf, id]; id stands for the       *)
(* identity of the Python dict object, conf is in hundredths.              *)
(* Ratios (IoU) and distances are exact rationals [n, d] with d > 0.       *)
(***************************************************************************)
EXTENDS Integers, Sequences, FiniteSets, TLC

VARIABLES
    pc,           \* position of the driver: which call has been made last
    detections,   \* the list handed to fusion
    nms_out,      \* result of simple_nms(detections), or None
    fused,        \* result of custom_priority(nms_out), or None
    prio_out,     \* result of custom_priority(detections), or None
    prev_fused,   \* the fusion output that was fed back as input, or None
    det,          \* the detection handed to estimate_distance / get_detection_info
    frame_width,
    frame_height,
    midas_distance,  \* externally supplied depth estimate, or None
    bbox_distance,   \* result of estimate_distance once pc says it was called
    info,            \* record returned by get_detection_info once it was called
    tables,          \* the module-level reference tables of core.py
    distance_text,   \* result of format_distance(info.distance) once it was called
    annotated,    \* the annotated detections handed to the decision engine
    policy,       \* the decision engine's thresholds
    command,      \* the NavigationCommand decided for the frame, or None
    bills,        \* rows of the bills table, in order of insertion
    transactions, \* rows of the transactions table, in order of insertion
    requests,     \* the HTTP requests in progress or answered, by request id
    boxA,         \* the two boxes handed to iou
    boxB,
    iou_ab,       \* iou(boxA, boxB) once pc says it was called
    iou_ba        \* iou(boxB, boxA)

vars == <<pc, detections, nms_out, fused, prio_out, prev_fused,
          det, frame_width, frame_height, midas_distance, bbox_distance, info,
          tables, distance_text, annotated, policy, command, bills, transactions,
          requests, boxA, boxB, iou_ab, iou_ba>>

fusionVars == <<detections, nms_out, fused, prio_out, prev_fused>>
annotateVars == <<det, frame_width, frame_height, midas_distance, bbox_distance, info,
                  tables, distance_text>>

decideVars == <<annotated, policy, command>>
storeVars == <<bills, transactions, requests>>
iouVars == <<boxA, boxB, iou_ab, iou_ba>>
otherVars == <<decideVars, storeVars, iouVars>>

None == "NoneType"            \* Python's None where a list is expected; longer than
                              \* any list, a string being compared as its characters
NoValue == [none |-> TRUE]    \* Python's None where a number or a dict is expected

-----------------------------------------------------------------------------
(* Bounds of the model *)

MaxDets == 3        \* longest detection list drawn as fusion input
MaxCoord == 3       \* largest box coordinate drawn as iou input
MaxObstacles == 3   \* longest annotated list handed to the decision engine
MaxRequests == 3    \* HTTP requests made to the bill and wallet routes

-----------------------------------------------------------------------------
(* Program constants *)

NMS_IOU_THRESH == 50        \* iou_thresh=0.5, in hundredths
PRIORITY_IOU_THRESH == 45   \* 0.45, in hundredths

custom_labels == {"door_closed", "door_open", "door_half_open", "stairs"}

-----------------------------------------------------------------------------
(* Inputs *)

\* Boxes (x1, y1, x2, y2).  Pairwise IoU:
\*   BoxA-BoxC 6/13, BoxA-BoxD 9/20 (= 0.45), BoxC-BoxD 1/2 (= 0.5);
\*   BoxB lies beside the others (it touches BoxD along x = 4): IoU 0
BoxA == <<0, 0, 3, 3>>
BoxB == <<4, 0, 6, 3>>
BoxC == <<0, 0, 2, 5>>
BoxD == <<0, 0, 4, 5>>
FusionBoxes == {BoxA, BoxB, BoxC, BoxD}

FusionLabels == {"door_closed", "Door_Closed", "person"}
FusionConfs == {60, 90}

RawPool == [bbox : FusionBoxes, label : FusionLabels, conf : FusionConfs]

-----------------------------------------------------------------------------
(* str.lower() on the labels the model draws *)

\* the label compared as given, without lower-casing
lower_identity(label) == label

lower(label) ==
    CASE label = "Door_Closed" -> "door_closed"
      [] label = "Human Face" -> "human face"
      [] OTHER -> label

-----------------------------------------------------------------------------
(* Arithmetic helpers *)

Max(a, b) == IF a >= b THEN a ELSE b
Min(a, b) == IF a <= b THEN a ELSE b

\* comparisons of a rational r = [n, d] with a threshold in hundredths
RatLt(r, pct) == r.n * 100 < pct * r.d
RatLe(r, pct) == r.n * 100 <= pct * r.d
RatGt(r, pct) == r.n * 100 > pct * r.d
RatGe(r, pct) == r.n * 100 >= pct * r.d

Abs(a) == IF a >= 0 THEN a ELSE -a

RECURSIVE Gcd(_, _)
Gcd(a, b) == IF b = 0 THEN a ELSE Gcd(b, a % b)

\* the rational n/d (d > 0, n >= 0) in lowest terms
Rat(n, d) == LET g == Gcd(n, d) IN [n |-> n \div g, d |-> d \div g]

RatLess(a, b) == a.n * b.d < b.n * a.d
RatLeq(a, b) == a.n * b.d <= b.n * a.d
RatAdd(a, b) == Rat(a.n * b.d + b.n * a.d, a.d * b.d)
RatMul(a, b) == Rat(a.n * b.n, a.d * b.d)
RatMax(a, b) == IF RatLess(a, b) THEN b ELSE a
RatMin(a, b) == IF RatLess(b, a) THEN b ELSE a

-----------------------------------------------------------------------------
(* core.py: iou *)

\* widths and heights counted in inclusive pixels (+ 1)
iou_inclusive_pixels(a, b) ==
    LET xA == Max(a[1], b[1])
        yA == Max(a[2], b[2])
        xB == Min(a[3], b[3])
        yB == Min(a[4], b[4])
        interW == Max(0, xB - xA + 1)
        interH == Max(0, yB - yA + 1)
        interArea == interW * interH
        boxAArea == (a[3] - a[1] + 1) * (a[4] - a[2] + 1)
        boxBArea == (b[3] - b[1] + 1) * (b[4] - b[2] + 1)
    IN  IF interArea = 0
        THEN [n |-> 0, d |-> 1]
        ELSE [n |-> interArea, d |-> boxAArea + boxBArea - interArea]

iou(a, b) ==
    LET xA == Max(a[1], b[1])
        yA == Max(a[2], b[2])
        xB == Min(a[3], b[3])
        yB == Min(a[4], b[4])
        interW == Max(0, xB - xA)
        interH == Max(0, yB - yA)
        interArea == interW * interH
        boxAArea == (a[3] - a[1]) * (a[4] - a[2])
        boxBArea == (b[3] - b[1]) * (b[4] - b[2])
    IN  IF interArea = 0
        THEN [n |-> 0, d |-> 1]
        ELSE [n |-> interArea, d |-> boxAArea + boxBArea - interArea]

-----------------------------------------------------------------------------
(* core.py: simple_nms *)

\* insert d behind every element whose conf is >= d.conf
RECURSIVE InsertByConf(_, _)
InsertByConf(d, s) ==
    IF s = <<>> THEN <<d>>
    ELSE IF Head(s).conf >= d.conf
         THEN <<Head(s)>> \o InsertByConf(d, Tail(s))
         ELSE <<d>> \o s

\* insert d in front of every element whose conf is <= d.conf
RECURSIVE InsertByConfFront(_, _)
InsertByConfFront(d, s) ==
    IF s = <<>> THEN <<d>>
    ELSE IF Head(s).conf > d.conf
         THEN <<Head(s)>> \o InsertByConfFront(d, Tail(s))
         ELSE <<d>> \o s

RECURSIVE SortInto(_, _)
SortInto(dets, acc) ==
    IF dets = <<>> THEN acc
    ELSE SortInto(Tail(dets), InsertByConf(Head(dets), acc))

RECURSIVE SortIntoFront(_, _)
SortIntoFront(dets, acc) ==
    IF dets = <<>> THEN acc
    ELSE SortIntoFront(Tail(dets), InsertByConfFront(Head(dets), acc))

\* a sort that is not stable: equal confidences come out in reverse input
\* order, as sorted(detections, key=...)[::-1] would give
SortedTiesReversed(dets) == SortIntoFront(dets, <<>>)

\* the list taken in its input order, the sort left out
SortedNotAtAll(dets) == dets

\* sorted(detections, key=lambda x: x.get("conf", 0), reverse=True):
\* descending by conf, stable (equal confidences keep their input order)
SortedByConf(dets) == SortInto(dets, <<>>)

\* a detection at the threshold survives
NmsKeepsAtThreshold(best, d, iou_thresh) ==
    RatLe(iou(best.bbox, d.bbox), iou_thresh)

\* if iou(best["bbox"], d["bbox"]) < iou_thresh: remaining.append(d)
NmsKeeps(best, d, iou_thresh) ==
    RatLt(iou(best.bbox, d.bbox), iou_thresh)

\* the while loop: dets is what is left, keep what has been kept
RECURSIVE NmsLoop(_, _, _)
NmsLoop(dets, keep, iou_thresh) ==
    IF dets = <<>> THEN keep
    ELSE LET best == Head(dets)
             remaining == SelectSeq(Tail(dets),
                                    LAMBDA d : NmsKeeps(best, d, iou_thresh))
         IN  NmsLoop(remaining, Append(keep, best), iou_thresh)

\* `not detections`: the list is missing (None) or empty
Falsy(dets) == dets = None \/ dets = <<>>

\* the falsy argument handed back instead of a new empty list
simple_nms_returns_input(dets, iou_thresh) ==
    IF Falsy(dets) THEN dets
    ELSE NmsLoop(SortedByConf(dets), <<>>, iou_thresh)

simple_nms(dets, iou_thresh) ==
    IF Falsy(dets) THEN <<>>
    ELSE NmsLoop(SortedByConf(dets), <<>>, iou_thresh)

-----------------------------------------------------------------------------
(* core.py: custom_priority *)

\* d.get("label") in custom_labels: the label as given, compared case-sensitively
IsCustom(d) == d.label \in custom_labels

\* a general detection at the threshold counts as overlapped
OverlappedAtThreshold(yd, custom_dets) ==
    \E i \in 1..Len(custom_dets) :
        RatGe(iou(yd.bbox, custom_dets[i].bbox), PRIORITY_IOU_THRESH)

\* the overlap test made with the NMS threshold 0.5 instead of 0.45
OverlappedAboveNmsThreshold(yd, custom_dets) ==
    \E i \in 1..Len(custom_dets) :
        RatGt(iou(yd.bbox, custom_dets[i].bbox), NMS_IOU_THRESH)

\* the inner loop: some cd has iou(yd["bbox"], cd["bbox"]) > 0.45
Overlapped(yd, custom_dets) ==
    \E i \in 1..Len(custom_dets) :
        RatGt(iou(yd.bbox, custom_dets[i].bbox), PRIORITY_IOU_THRESH)

\* the filter loop run over every detection instead of yolo_dets only
custom_priority_filters_all(dets) ==
    IF Falsy(dets) THEN <<>>
    ELSE LET custom_dets == SelectSeq(dets, IsCustom)
         IN  IF custom_dets = <<>> THEN dets
             ELSE SelectSeq(dets, LAMBDA yd : ~Overlapped(yd, custom_dets))

\* the list without specialized labels answered like the empty list
custom_priority_empty_without_custom(dets) ==
    IF Falsy(dets) THEN <<>>
    ELSE LET custom_dets == SelectSeq(dets, IsCustom)
             yolo_dets == SelectSeq(dets, LAMBDA d : ~IsCustom(d))
         IN  IF custom_dets = <<>> THEN <<>>
             ELSE custom_dets \o
                  SelectSeq(yolo_dets, LAMBDA yd : ~Overlapped(yd, custom_dets))

custom_priority(dets) ==
    IF Falsy(dets) THEN <<>>
    ELSE LET custom_dets == SelectSeq(dets, IsCustom)
             yolo_dets == SelectSeq(dets, LAMBDA d : ~IsCustom(d))
         IN  IF custom_dets = <<>> THEN dets
             ELSE custom_dets \o
                  SelectSeq(yolo_dets, LAMBDA yd : ~Overlapped(yd, custom_dets))

-----------------------------------------------------------------------------
(* core.py: reference tables.  Heights are in hundredths of a metre. *)

FACE_LABELS == {"face", "human face"}

TYPICAL_HEIGHTS_M ==
    ("person" :> 170) @@ ("chair" :> 90) @@ ("bottle" :> 25) @@ ("cup" :> 10) @@
    ("cell phone" :> 15) @@ ("car" :> 150) @@ ("truck" :> 200) @@ ("bus" :> 300) @@
    ("cat" :> 25) @@ ("dog" :> 50) @@ ("table" :> 80) @@ ("door" :> 200) @@
    ("door_open" :> 200) @@ ("door_closed" :> 200) @@ ("door_half_open" :> 200) @@
    ("stairs" :> 120) @@ ("stairs_up" :> 120) @@ ("stairs_down" :> 120) @@
    ("bench" :> 50) @@ ("couch" :> 90) @@ ("bed" :> 60) @@ ("laptop" :> 30) @@
    ("tv" :> 60) @@ ("refrigerator" :> 180)

LARGE_OBJECTS ==
    {"door", "door_open", "door_closed", "door_half_open", "stairs", "wall",
     "refrigerator"}

FOCAL_LENGTH == 500

\* calibrated_focal_lengths = {}: no label has a calibration
calibrated_focal_lengths == [l \in {} |-> 0]

DEFAULT_HEIGHT_M == 80      \* TYPICAL_HEIGHTS_M.get(label_lower, 0.8)

\* the module globals as they are after import
StartTables ==
    [ FACE_LABELS |-> FACE_LABELS,
      TYPICAL_HEIGHTS_M |-> TYPICAL_HEIGHTS_M,
      LARGE_OBJECTS |-> LARGE_OBJECTS,
      FOCAL_LENGTH |-> FOCAL_LENGTH,
      calibrated_focal_lengths |-> calibrated_focal_lengths ]

\* the globals after estimate_distance has looked label up: membership tests
\* and dict.get read the tables and insert nothing
TablesAfterEstimateDistance(t, label) == t

\* simple_nms sorting and popping the caller's list itself
InputAfterSimpleNmsInPlace(dets) ==
    IF Falsy(dets) THEN dets ELSE Tail(SortedByConf(dets))

\* the caller's list after simple_nms: sorted() builds a new list, and the
\* loop pops from that one
InputAfterSimpleNms(dets) == dets

-----------------------------------------------------------------------------
(* The fusion driver: simple_nms, then custom_priority, on a drawn list;   *)
(* custom_priority alone on the drawn list; the fusion output fed back.    *)

IouIdle ==
    /\ boxA = NoValue
    /\ boxB = NoValue
    /\ iou_ab = NoValue
    /\ iou_ba = NoValue

DecideIdle ==
    /\ annotated = <<>>
    /\ policy = NoValue
    /\ command = NoValue

StoreIdle ==
    /\ bills = <<>>
    /\ transactions = <<>>
    /\ requests = <<>>

AnnotateIdle ==
    /\ det = NoValue
    /\ frame_width = 0
    /\ frame_height = 0
    /\ midas_distance = NoValue
    /\ bbox_distance = NoValue
    /\ info = NoValue
    /\ distance_text = NoValue

InitFusion ==
    /\ pc = "start"
    /\ (detections = <<>> \/ detections = None)
    /\ nms_out = None
    /\ fused = None
    /\ prio_out = None
    /\ prev_fused = None
    /\ AnnotateIdle
    /\ tables = StartTables
    /\ DecideIdle
    /\ StoreIdle
    /\ IouIdle

\* a detector reports one more detection, pooled behind the earlier ones
Detect ==
    /\ pc = "start"
    /\ prev_fused = None
    /\ detections # None
    /\ Len(detections) < MaxDets
    /\ \E raw \in RawPool :
          detections' = Append(detections,
                               [bbox |-> raw.bbox, label |-> raw.label,
                                conf |-> raw.conf, id |-> Len(detections) + 1])
    /\ UNCHANGED <<pc, nms_out, fused, prio_out, prev_fused, annotateVars, otherVars>>

SimpleNms ==
    /\ pc = "start"
    /\ nms_out' = simple_nms(detections, NMS_IOU_THRESH)
    /\ detections' = InputAfterSimpleNms(detections)
    /\ pc' = "nms"
    /\ UNCHANGED <<fused, prio_out, prev_fused, annotateVars, otherVars>>

CustomPriority ==
    /\ pc = "nms"
    /\ fused' = custom_priority(nms_out)
    /\ pc' = "fused"
    /\ UNCHANGED <<detections, nms_out, prio_out, prev_fused, annotateVars, otherVars>>

PriorityOnly ==
    /\ pc = "start"
    /\ prev_fused = None
    /\ prio_out' = custom_priority(detections)
    /\ pc' = "prio"
    /\ UNCHANGED <<detections, nms_out, fused, prev_fused, annotateVars, otherVars>>

FuseAgain ==
    /\ pc = "fused"
    /\ prev_fused = None
    /\ prev_fused' = fused
    /\ detections' = fused
    /\ nms_out' = None
    /\ fused' = None
    /\ pc' = "start"
    /\ UNCHANGED <<prio_out, annotateVars, otherVars>>

NextFusion == Detect \/ SimpleNms \/ CustomPriority \/ PriorityOnly \/ FuseAgain

SpecFusion == InitFusion /\ [][NextFusion]_vars

MIN_DISTANCE == Rat(1, 10)  \* 0.1
MAX_DISTANCE == Rat(15, 1)  \* 15.0

-----------------------------------------------------------------------------
(* core.py: format_label_for_speech, relative_position *)

\* label.replace("_", " ").replace("-", " ") on the labels the model draws
format_label_for_speech(label) ==
    CASE label = "Door_Closed" -> "Door Closed"
      [] label = "door_closed" -> "door closed"
      [] OTHER -> label

\* the two boundaries given to the outer buckets
relative_position_boundaries_outside(cx, frame_w) ==
    LET third == Rat(frame_w, 3)
    IN  IF RatLeq(cx, third) THEN "left"
        ELSE IF RatLeq(RatMul(Rat(2, 1), third), cx) THEN "right"
        ELSE "center"

\* cx and frame_w / 3 compared as rationals
relative_position(cx, frame_w) ==
    LET third == Rat(frame_w, 3)
    IN  IF RatLess(cx, third) THEN "left"
        ELSE IF RatLess(RatMul(Rat(2, 1), third), cx) THEN "right"
        ELSE "center"

-----------------------------------------------------------------------------
(* core.py: estimate_distance, _estimate_distance_by_coverage *)

\* the table read with exclusive breakpoints
estimate_distance_by_coverage_exclusive(bbox, frame_w, frame_h, label) ==
    LET bbox_width == Abs(bbox[3] - bbox[1])
        bbox_height == Abs(bbox[4] - bbox[2])
        coverage == Rat(bbox_width * bbox_height, frame_w * frame_h)
        height_coverage == Rat(bbox_height, frame_h)
        width_coverage == Rat(bbox_width, frame_w)
        max_coverage == RatMax(RatMax(height_coverage, width_coverage), coverage)
    IN  IF RatGt(max_coverage, 85) THEN Rat(3, 10)
        ELSE IF RatGt(max_coverage, 70) THEN Rat(5, 10)
        ELSE IF RatGt(max_coverage, 55) THEN Rat(8, 10)
        ELSE IF RatGt(max_coverage, 45) THEN Rat(10, 10)
        ELSE IF RatGt(max_coverage, 35) THEN Rat(13, 10)
        ELSE IF RatGt(max_coverage, 25) THEN Rat(18, 10)
        ELSE IF RatGt(max_coverage, 15) THEN Rat(25, 10)
        ELSE IF RatGt(max_coverage, 10) THEN Rat(35, 10)
        ELSE Rat(50, 10)

estimate_distance_by_coverage(bbox, frame_w, frame_h, label) ==
    LET bbox_width == Abs(bbox[3] - bbox[1])
        bbox_height == Abs(bbox[4] - bbox[2])
        bbox_area == bbox_width * bbox_height
        frame_area == frame_w * frame_h
        coverage == Rat(bbox_area, frame_area)
        height_coverage == Rat(bbox_height, frame_h)
        width_coverage == Rat(bbox_width, frame_w)
        max_coverage == RatMax(RatMax(height_coverage, width_coverage), coverage)
    IN  IF RatGe(max_coverage, 85) THEN Rat(3, 10)
        ELSE IF RatGe(max_coverage, 70) THEN Rat(5, 10)
        ELSE IF RatGe(max_coverage, 55) THEN Rat(8, 10)
        ELSE IF RatGe(max_coverage, 45) THEN Rat(10, 10)
        ELSE IF RatGe(max_coverage, 35) THEN Rat(13, 10)
        ELSE IF RatGe(max_coverage, 25) THEN Rat(18, 10)
        ELSE IF RatGe(max_coverage, 15) THEN Rat(25, 10)
        ELSE IF RatGe(max_coverage, 10) THEN Rat(35, 10)
        ELSE Rat(50, 10)

\* the height-based result returned without max(0.1, min(distance, 15.0))
HeightDistanceUnclamped(real_height_m, focal, bbox_height_px) ==
    Rat(real_height_m * focal, 100 * bbox_height_px)

\* distance = (real_height_m * focal) / bbox_height_px
\* return float(max(0.1, min(distance, 15.0)))
HeightDistance(real_height_m, focal, bbox_height_px) ==
    LET distance == Rat(real_height_m * focal, 100 * bbox_height_px)
    IN  RatMax(MIN_DISTANCE, RatMin(distance, MAX_DISTANCE))

\* a label missing from the height table ends in the except branch
estimate_distance_no_default(bbox, label, frame_w, frame_h) ==
    LET bbox_height_px == Abs(bbox[4] - bbox[2])
        label_lower == lower(label)
        focal == IF label_lower \in DOMAIN calibrated_focal_lengths
                 THEN calibrated_focal_lengths[label_lower]
                 ELSE FOCAL_LENGTH
    IN  IF bbox_height_px <= 0 THEN NoValue
        ELSE IF label_lower \in FACE_LABELS THEN NoValue
        ELSE IF label_lower \in LARGE_OBJECTS
             THEN estimate_distance_by_coverage(bbox, frame_w, frame_h, label_lower)
        ELSE IF label_lower \notin DOMAIN TYPICAL_HEIGHTS_M THEN NoValue
        ELSE HeightDistance(TYPICAL_HEIGHTS_M[label_lower], focal, bbox_height_px)

estimate_distance(bbox, label, frame_w, frame_h) ==
    LET bbox_height_px == Abs(bbox[4] - bbox[2])
        label_lower == lower(label)
        real_height_m == IF label_lower \in DOMAIN TYPICAL_HEIGHTS_M
                         THEN TYPICAL_HEIGHTS_M[label_lower]
                         ELSE DEFAULT_HEIGHT_M
        focal == IF label_lower \in DOMAIN calibrated_focal_lengths
                 THEN calibrated_focal_lengths[label_lower]
                 ELSE FOCAL_LENGTH
    IN  IF bbox_height_px <= 0 THEN NoValue
        ELSE IF label_lower \in FACE_LABELS THEN NoValue
        ELSE IF label_lower \in LARGE_OBJECTS
             THEN estimate_distance_by_coverage(bbox, frame_w, frame_h, label_lower)
        ELSE HeightDistance(real_height_m, focal, bbox_height_px)

-----------------------------------------------------------------------------
(* core.py: get_detection_info *)

\* bbox_distance * 0.7 + midas_distance * 0.3 and its mirror image
Blend(major, minor) ==
    RatAdd(RatMul(major, Rat(7, 10)), RatMul(minor, Rat(3, 10)))

\* the 2.0 m switch of the standard branch applied to a large label too
LargeObjectDistanceWithSwitch(bbox_dist, midas) ==
    IF bbox_dist # NoValue /\ midas # NoValue
    THEN IF RatLess(midas, Rat(2, 1))
         THEN Blend(midas, bbox_dist)
         ELSE Blend(bbox_dist, midas)
    ELSE bbox_dist

\* the distance chosen for a large/frame-filling label
LargeObjectDistance(bbox_dist, midas) ==
    IF bbox_dist # NoValue /\ midas # NoValue
    THEN Blend(bbox_dist, midas)
    ELSE bbox_dist

\* a depth estimate of exactly 2.0 m still weighted 70%
StandardDistanceSwitchInclusive(bbox_dist, midas) ==
    IF midas # NoValue /\ bbox_dist # NoValue
    THEN IF RatLeq(midas, Rat(2, 1))
         THEN Blend(midas, bbox_dist)
         ELSE Blend(bbox_dist, midas)
    ELSE IF midas # NoValue THEN midas
    ELSE bbox_dist

\* the distance chosen for every other label
StandardDistance(bbox_dist, midas) ==
    IF midas # NoValue /\ bbox_dist # NoValue
    THEN IF RatLess(midas, Rat(2, 1))
         THEN Blend(midas, bbox_dist)
         ELSE Blend(bbox_dist, midas)
    ELSE IF midas # NoValue THEN midas
    ELSE bbox_dist

get_detection_info(d, frame_w, frame_h, midas) ==
    LET x1 == d.bbox[1]
        x2 == d.bbox[3]
        cx == Rat(x1 + x2, 2)
        label == d.label
        bbox_dist == estimate_distance(d.bbox, label, frame_w, frame_h)
        label_lower == lower(label)
        distance == IF label_lower \in LARGE_OBJECTS
                    THEN LargeObjectDistance(bbox_dist, midas)
                    ELSE StandardDistance(bbox_dist, midas)
    IN  [label |-> label,
         speech_label |-> format_label_for_speech(label),
         conf |-> d.conf,
         distance |-> distance,
         position |-> relative_position(cx, frame_w),
         bbox |-> d.bbox]

-----------------------------------------------------------------------------
(* The annotation driver: one detection, a frame size and an optional depth *)
(* estimate are drawn; estimate_distance and get_detection_info are called. *)

\* pixel boxes (x1, y1, x2, y2)
AnnotateBoxes ==
    { <<0, 100, 50, 100>>,      \* zero height
      <<0, 200, 50, 100>>,      \* y2 < y1
      <<100, 100, 150, 110>>,   \* 10 px high
      <<200, 100, 300, 300>>,   \* 200 px high
      <<0, 0, 640, 440>>,       \* nearly fills a 640 x 480 frame
      <<500, 0, 600, 500>>,     \* 500 px high
      \* heights at the coverage breakpoints of a 480 px high frame, with
      \* centres at x = 50, 240, 450, 160 and 320
      <<0, 0, 100, 408>>,       \* 0.85
      <<190, 0, 290, 336>>,     \* 0.70
      <<420, 0, 480, 264>>,     \* 0.55
      <<110, 0, 210, 216>>,     \* 0.45
      <<270, 0, 370, 168>>,     \* 0.35
      <<200, 0, 260, 120>>,     \* 0.25
      <<200, 0, 260, 72>>,      \* 0.15
      <<200, 0, 260, 48>>,      \* 0.10
      <<200, 0, 260, 47>> }     \* just below 0.10

AnnotateLabels ==
    {"person", "cup", "widget", "door", "Door_Closed", "refrigerator",
     "face", "Human Face"}

\* r rounded to a whole number of tenths, a tie going to the even digit
RoundTenths(r) ==
    LET twice == (20 * r.n) \div r.d          \* floor(2 * 10 * r)
        exact == (20 * r.n) % r.d = 0
        down == twice \div 2
    IN  IF twice % 2 = 0 THEN down
        ELSE IF exact /\ down % 2 = 0 THEN down
        ELSE down + 1

\* an absent distance read as 0.0
format_distance_coerces_none(dist_m) ==
    IF dist_m = NoValue \/ RatLess(dist_m, Rat(1, 10))
    THEN [text |-> "very close"]
    ELSE [text |-> "meters", tenths |-> RoundTenths(dist_m)]

\* the text is "<tenths / 10> meters" when a number is rendered
format_distance(dist_m) ==
    IF dist_m = NoValue THEN [text |-> "unknown distance"]
    ELSE IF RatLess(dist_m, Rat(1, 10)) THEN [text |-> "very close"]
    ELSE [text |-> "meters", tenths |-> RoundTenths(dist_m)]

FrameSizes == { <<480, 480>>, <<640, 480>>, <<1280, 720>> }

\* supplied depth estimates, in metres: 0.05, 1.0, 2.0, 3.0, 20.0
MidasValues == { Rat(1, 20), Rat(1, 1), Rat(2, 1), Rat(3, 1), Rat(20, 1) }

FusionIdle ==
    /\ detections = <<>>
    /\ nms_out = None
    /\ fused = None
    /\ prio_out = None
    /\ prev_fused = None

InitAnnotate ==
    /\ pc = "ready"
    /\ det \in [bbox : AnnotateBoxes, label : AnnotateLabels, conf : {90}]
    /\ \E size \in FrameSizes : frame_width = size[1] /\ frame_height = size[2]
    /\ midas_distance = NoValue \/ midas_distance \in MidasValues
    /\ bbox_distance = NoValue
    /\ info = NoValue
    /\ distance_text = NoValue
    /\ tables = StartTables
    /\ FusionIdle
    /\ DecideIdle
    /\ StoreIdle
    /\ IouIdle

EstimateDistance ==
    /\ pc = "ready"
    /\ bbox_distance' = estimate_distance(det.bbox, det.label,
                                          frame_width, frame_height)
    /\ tables' = TablesAfterEstimateDistance(tables, det.label)
    /\ pc' = "estimated"
    /\ UNCHANGED <<det, frame_width, frame_height, midas_distance, info, distance_text,
                   fusionVars, otherVars>>

GetDetectionInfo ==
    /\ pc = "estimated"
    /\ info' = get_detection_info(det, frame_width, frame_height, midas_distance)
    /\ tables' = TablesAfterEstimateDistance(tables, det.label)
    /\ pc' = "annotated"
    /\ UNCHANGED <<det, frame_width, frame_height, midas_distance, bbox_distance,
                   distance_text, fusionVars, otherVars>>

FormatDistance ==
    /\ pc = "annotated"
    /\ distance_text' = format_distance(info.distance)
    /\ pc' = "formatted"
    /\ UNCHANGED <<det, frame_width, frame_height, midas_distance, bbox_distance,
                   info, tables, fusionVars, otherVars>>

NextAnnotate == EstimateDistance \/ GetDetectionInfo \/ FormatDistance

SpecAnnotate == InitAnnotate /\ [][NextAnnotate]_vars

-----------------------------------------------------------------------------
(* Both drivers together: any sequence of the four calls *)

Init == InitFusion \/ InitAnnotate

Next == NextFusion \/ NextAnnotate

Spec == Init /\ [][Next]_vars

-----------------------------------------------------------------------------
(* Properties of distance annotation *)

InRange(dist) == RatLeq(MIN_DISTANCE, dist) /\ RatLeq(dist, MAX_DISTANCE)

\* C3 (as stated): estimate_distance returns None for every bbox whose height
\* y2 - y1 is zero or negative, whatever the label and the frame size.
C3_NonPositiveHeightGivesNone ==
    (pc \in {"estimated", "annotated"} /\ det.bbox[4] - det.bbox[2] <= 0)
        => bbox_distance = NoValue

C5_LargeLabelUsesAvailableEstimate ==
    (pc = "annotated" /\ lower(det.label) \in LARGE_OBJECTS) =>
        /\ (bbox_distance = NoValue /\ midas_distance # NoValue)
               => info.distance = midas_distance
        /\ (bbox_distance # NoValue /\ midas_distance = NoValue)
               => info.distance = bbox_distance

\* what the claims call the inputs of the current call
BoxHeight == det.bbox[4] - det.bbox[2]
BoxWidth == det.bbox[3] - det.bbox[1]
Called == pc \in {"estimated", "annotated"}
LargeLabel == lower(det.label) \in LARGE_OBJECTS
FaceLabel == det.label \in {"face", "Face", "human face", "Human Face"}

\* max(area coverage, height coverage, width coverage) of box b
MaxCoverage(b) ==
    LET w == Abs(b[3] - b[1])
        h == Abs(b[4] - b[2])
    IN  RatMax(RatMax(Rat(w * h, frame_width * frame_height), Rat(h, frame_height)),
               Rat(w, frame_width))

\* the step table of the claim, in tenths of a metre
StepTable(mc) ==
    IF RatGe(mc, 85) THEN 3
    ELSE IF RatGe(mc, 70) THEN 5
    ELSE IF RatGe(mc, 55) THEN 8
    ELSE IF RatGe(mc, 45) THEN 10
    ELSE IF RatGe(mc, 35) THEN 13
    ELSE IF RatGe(mc, 25) THEN 18
    ELSE IF RatGe(mc, 15) THEN 25
    ELSE IF RatGe(mc, 10) THEN 35
    ELSE 50

\* C12: for a large/frame-filling label and a box of positive height,
\* estimate_distance returns the step-table value of max_coverage, every
\* breakpoint inclusive, and a box of at least the same max_coverage never
\* gets a larger distance.
C12_CoverageStepTable ==
    (Called /\ LargeLabel /\ BoxHeight > 0) =>
        /\ bbox_distance = Rat(StepTable(MaxCoverage(det.bbox)), 10)
        /\ \A b \in AnnotateBoxes :
              (b[4] - b[2] > 0 /\ RatLeq(MaxCoverage(det.bbox), MaxCoverage(b)))
              => RatLeq(estimate_distance(b, det.label, frame_width, frame_height),
                        bbox_distance)

\* a door whose height is exactly 0.45 of the frame height, and nothing
\* larger, is estimated at 1.0 m
C12_Witness ==
    /\ Called /\ LargeLabel /\ BoxHeight > 0
    /\ MaxCoverage(det.bbox) = Rat(45, 100)
    /\ bbox_distance = Rat(1, 1)

\* max(0.1, min(r, 15.0))
Clamped(r) ==
    IF r.n * 10 < r.d THEN Rat(1, 10)
    ELSE IF r.n > 15 * r.d THEN Rat(15, 1)
    ELSE r

ReferenceHeight(label) ==
    IF lower(label) \in DOMAIN TYPICAL_HEIGHTS_M
    THEN TYPICAL_HEIGHTS_M[lower(label)]
    ELSE 80

\* C13: for a label that is neither a face label nor large and a box of
\* positive height, estimate_distance returns
\* clamp(reference_height * focal / bbox_height, 0.1, 15.0), with 0.8 m for
\* an unknown label and focal 500; the result is a number in [0.1, 15.0].
C13_HeightBasedDistance ==
    (Called /\ ~FaceLabel /\ ~LargeLabel /\ BoxHeight > 0) =>
        /\ bbox_distance # NoValue
        /\ bbox_distance = Clamped(Rat(ReferenceHeight(det.label) * 500,
                                       100 * BoxHeight))
        /\ InRange(bbox_distance)

\* a label missing from the height table, 200 px high: 0.8 * 500 / 200 = 2.0
C13_Witness ==
    /\ Called
    /\ det.label = "widget"
    /\ BoxHeight = 200
    /\ bbox_distance = Rat(2, 1)

\* C14: for a face label, in any letter case, estimate_distance returns
\* None for every box and frame size.
C14_FaceLabelGivesNone ==
    (Called /\ FaceLabel) => bbox_distance = NoValue

\* the label "Human Face" on a box of positive height
C14_Witness ==
    /\ Called
    /\ det.label = "Human Face"
    /\ BoxHeight > 0
    /\ bbox_distance = NoValue

\* C15: the position is left iff cx < w/3, right iff cx > 2w/3, center
\* otherwise, with cx = (x1 + x2) / 2; both boundaries belong to center.
C15_PositionThirds ==
    pc = "annotated" =>
        LET sum == det.bbox[1] + det.bbox[3]
        IN  /\ info.position \in {"left", "center", "right"}
            /\ info.position = "left" <=> 3 * sum < 2 * frame_width
            /\ info.position = "right" <=> 3 * sum > 4 * frame_width

\* frame width 480 and centre x exactly 160: center
C15_Witness ==
    /\ pc = "annotated"
    /\ frame_width = 480
    /\ det.bbox[1] + det.bbox[3] = 320
    /\ info.position = "center"

\* 0.7 * a + 0.3 * b
Weighted(a, b) == Rat(7 * a.n * b.d + 3 * b.n * a.d, 10 * a.d * b.d)

\* C16: for a label outside the large set: 0.7*midas + 0.3*bbox when both
\* are available and midas < 2.0; 0.3*midas + 0.7*bbox when both are
\* available and midas >= 2.0; the available one when only one is; None
\* when neither is.
C16_StandardBlend ==
    (pc = "annotated" /\ ~LargeLabel) =>
        /\ (midas_distance # NoValue /\ bbox_distance # NoValue
              /\ midas_distance.n < 2 * midas_distance.d)
             => info.distance = Weighted(midas_distance, bbox_distance)
        /\ (midas_distance # NoValue /\ bbox_distance # NoValue
              /\ midas_distance.n >= 2 * midas_distance.d)
             => info.distance = Weighted(bbox_distance, midas_distance)
        /\ (midas_distance # NoValue /\ bbox_distance = NoValue)
             => info.distance = midas_distance
        /\ (midas_distance = NoValue /\ bbox_distance # NoValue)
             => info.distance = bbox_distance
        /\ (midas_distance = NoValue /\ bbox_distance = NoValue)
             => info.distance = NoValue

\* a depth estimate of exactly 2.0 m is blended with a different bbox
\* estimate of a person
C16_Witness ==
    /\ pc = "annotated"
    /\ det.label = "person"
    /\ midas_distance = Rat(2, 1)
    /\ bbox_distance # NoValue
    /\ bbox_distance # midas_distance

\* C17: for a large/frame-filling label with both estimates available the
\* distance is 0.7*bbox_distance + 0.3*midas_distance, whatever
\* midas_distance is.
C17_LargeBlend ==
    (pc = "annotated" /\ LargeLabel
       /\ bbox_distance # NoValue /\ midas_distance # NoValue)
        => info.distance = Weighted(bbox_distance, midas_distance)

\* a door with a depth estimate below 2.0 m that differs from the coverage
\* estimate
C17_Witness ==
    /\ pc = "annotated"
    /\ det.label = "door"
    /\ bbox_distance # NoValue
    /\ midas_distance # NoValue
    /\ midas_distance.n < 2 * midas_distance.d
    /\ bbox_distance # midas_distance

\* C23: format_distance returns "unknown distance" exactly when the
\* distance is absent, "very close" for every numeric distance below 0.1,
\* and never renders an absent distance as a number of meters.
C23_AbsentDistanceKeptDistinct ==
    pc = "formatted" =>
        /\ distance_text.text = "unknown distance" <=> info.distance = NoValue
        /\ (info.distance # NoValue /\ 10 * info.distance.n < info.distance.d)
              => distance_text.text = "very close"
        /\ info.distance = NoValue => distance_text.text # "meters"

\* a face 0.05 m away by the depth estimate alone is "very close"
C23_Witness ==
    /\ pc = "formatted"
    /\ info.distance = Rat(1, 20)
    /\ distance_text.text = "very close"

\* an absent distance has been formatted
C23_WitnessAbsent ==
    /\ pc = "formatted"
    /\ info.distance = NoValue
    /\ distance_text.text = "unknown distance"

-----------------------------------------------------------------------------
(* Properties of fusion *)

Elems(s) == IF s = None THEN {} ELSE { s[i] : i \in 1..Len(s) }

Specialized(d) == d.label \in custom_labels

IouOf(a, b) == iou(a.bbox, b.bbox)

\* another pooled detection of at least d's confidence overlaps d with
\* IoU >= 0.5, which is what lets simple_nms discard d
Dominated(d, dets) ==
    \E o \in Elems(dets) :
        o.id # d.id /\ o.conf >= d.conf /\ RatGe(IouOf(o, d), NMS_IOU_THRESH)

\* C1 (as stated): every specialized-label detection of the fusion input is
\* present in the fusion output.
C1_FusionKeepsEverySpecialized ==
    pc = "fused" =>
        \A s \in Elems(detections) : Specialized(s) => s \in Elems(fused)

\* C1 (amended): a specialized-label detection of the fusion input is present
\* in the fusion output unless another input detection of at least its
\* confidence overlaps it with IoU >= 0.5 (the NMS step may then discard it);
\* the priority step itself never removes a specialized detection.
C1_SpecializedRemovedOnlyByNms ==
    pc = "fused" =>
        \A s \in Elems(detections) :
            (Specialized(s) /\ ~Dominated(s, detections)) => s \in Elems(fused)

\* a specialized detection survives fusion although a general detection of
\* higher confidence overlaps it, and that general detection is removed
C1_Witness ==
    /\ pc = "fused"
    /\ \E s \in Elems(fused), g \in Elems(detections) :
          /\ Specialized(s) /\ ~Specialized(g)
          /\ g.conf > s.conf
          /\ RatGt(IouOf(g, s), PRIORITY_IOU_THRESH)
          /\ g \notin Elems(fused)

\* C2 (as stated): a general detection whose IoU with a specialized detection
\* of the fusion input exceeds 0.45 is absent from the fusion output.
C2_OverlappingGeneralAbsent ==
    pc = "fused" =>
        \A g \in Elems(detections), s \in Elems(detections) :
            (lower(g.label) \notin custom_labels /\ Specialized(s)
               /\ RatGt(IouOf(g, s), PRIORITY_IOU_THRESH))
            => g \notin Elems(fused)

\* C2 (amended): a general detection whose IoU with a specialized detection
\* exceeds 0.45 is absent from the fusion output whenever that specialized
\* detection survives the NMS step, whatever the two confidences are.
C2_GeneralAbsentWhenSpecializedSurvivesNms ==
    pc = "fused" =>
        \A g \in Elems(detections), s \in Elems(nms_out) :
            (~Specialized(g) /\ Specialized(s)
               /\ RatGt(IouOf(g, s), PRIORITY_IOU_THRESH))
            => g \notin Elems(fused)

\* the priority step removes a general detection of higher confidence that
\* NMS had kept beside the specialized one (0.45 < IoU < 0.5)
C2_Witness ==
    /\ pc = "fused"
    /\ \E g \in Elems(nms_out), s \in Elems(nms_out) :
          /\ ~Specialized(g) /\ Specialized(s)
          /\ g.conf > s.conf
          /\ RatGt(IouOf(g, s), PRIORITY_IOU_THRESH)
          /\ RatLt(IouOf(g, s), NMS_IOU_THRESH)
          /\ g \notin Elems(fused)

\* C6 (as stated): simple_nms discards a detection exactly when its IoU with
\* a kept detection strictly exceeds 0.5; at exactly 0.5 it is retained.
C6_NmsDiscardsOnlyAboveThreshold ==
    pc = "nms" =>
        \A d \in Elems(detections) :
            d \notin Elems(nms_out) <=>
                \E k \in Elems(nms_out) :
                    k.id # d.id /\ RatGt(IouOf(k, d), NMS_IOU_THRESH)

\* C6 (amended): simple_nms discards a detection exactly when its IoU with a
\* kept detection is at least 0.5; it is retained when its IoU with every
\* kept detection is strictly below 0.5, so exactly 0.5 is discarded.
C6_NmsDiscardsAtOrAboveThreshold ==
    pc = "nms" =>
        \A d \in Elems(detections) :
            d \notin Elems(nms_out) <=>
                \E k \in Elems(nms_out) :
                    k.id # d.id /\ RatGe(IouOf(k, d), NMS_IOU_THRESH)

\* a detection is discarded whose IoU with every kept detection is at most
\* 0.5 and is exactly 0.5 with one of them
C6_Witness ==
    /\ pc = "nms"
    /\ \E d \in Elems(detections) :
          /\ d \notin Elems(nms_out)
          /\ \A k \in Elems(nms_out) : RatLe(IouOf(k, d), NMS_IOU_THRESH)
          /\ \E k \in Elems(nms_out) : IouOf(k, d).n * 2 = IouOf(k, d).d

\* C7 (as stated): custom_priority treats a label by its lower-cased form: a
\* detection whose lower-cased label is specialized is always retained and
\* removes the general detections that overlap it by more than 0.45.
C7_MixedCaseLabelIsSpecialized ==
    pc = "prio" =>
        \A s \in Elems(detections) :
            lower(s.label) \in custom_labels =>
                /\ s \in Elems(prio_out)
                /\ \A g \in Elems(detections) :
                      (lower(g.label) \notin custom_labels
                         /\ RatGt(IouOf(g, s), PRIORITY_IOU_THRESH))
                      => g \notin Elems(prio_out)

\* C8: no two distinct survivors of fusion have IoU >= 0.5 unless at least
\* one of them carries a specialized label.
C8_SurvivorsDoNotOverlap ==
    pc = "fused" =>
        \A a \in Elems(fused), b \in Elems(fused) :
            (a.id # b.id /\ RatGe(IouOf(a, b), NMS_IOU_THRESH))
            => (Specialized(a) \/ Specialized(b))

\* two general detections that overlap (below 0.5) survive a fusion in which
\* NMS discarded something
C8_Witness ==
    /\ pc = "fused"
    /\ detections # None
    /\ Len(nms_out) < Len(detections)
    /\ \E a \in Elems(fused), b \in Elems(fused) :
          /\ a.id # b.id
          /\ ~Specialized(a) /\ ~Specialized(b)
          /\ IouOf(a, b).n > 0

\* C9: fusion applied to its own output returns that output, same detections
\* in the same order.
C9_FusionIdempotent ==
    (pc = "fused" /\ prev_fused # None) => fused = prev_fused

\* the second fusion ran on an output that NMS had to re-sort and that holds
\* two detections of equal confidence
C9_Witness ==
    /\ pc = "fused"
    /\ prev_fused # None
    /\ nms_out # prev_fused
    /\ \E i \in 1..Len(fused), j \in 1..Len(fused) :
          i # j /\ fused[i].conf = fused[j].conf

\* C10: with a specialized detection present, custom_priority removes a
\* general detection if and only if its IoU with some specialized detection
\* of the list is strictly greater than 0.45.
C10_PriorityRemovesIffAboveThreshold ==
    (pc = "prio" /\ \E c \in Elems(detections) : Specialized(c)) =>
        \A g \in Elems(detections) :
            ~Specialized(g) =>
                (g \notin Elems(prio_out) <=>
                    \E c \in Elems(detections) :
                        Specialized(c)
                        /\ RatGt(IouOf(g, c), PRIORITY_IOU_THRESH))

\* one general detection is retained at IoU exactly 0.45 with a specialized
\* one while another general detection is removed
C10_Witness ==
    /\ pc = "prio"
    /\ \E g \in Elems(prio_out), c \in Elems(detections) :
          /\ ~Specialized(g) /\ Specialized(c)
          /\ IouOf(g, c).n * 100 = PRIORITY_IOU_THRESH * IouOf(g, c).d
    /\ \E g \in Elems(detections) : ~Specialized(g) /\ g \notin Elems(prio_out)

\* C11: a list without any specialized-label detection comes back from
\* custom_priority unchanged: the same detections in the same order.
C11_NoSpecializedPassesThrough ==
    (pc = "prio" /\ detections # None
       /\ \A d \in Elems(detections) : ~Specialized(d))
        => prio_out = detections

\* custom_priority ran on two general detections that overlap by more than
\* 0.45, the one of lower confidence first, and no specialized one
C11_Witness ==
    /\ pc = "prio"
    /\ detections # None
    /\ Len(detections) >= 2
    /\ \A d \in Elems(detections) : ~Specialized(d)
    /\ detections[1].conf < detections[2].conf
    /\ RatGt(IouOf(detections[1], detections[2]), PRIORITY_IOU_THRESH)

\* C18: an empty or missing detection list is no error: simple_nms returns
\* an empty list for it, custom_priority returns an empty list for it, and
\* so does fusion.
C18_EmptyInputGivesEmptyOutput ==
    (detections = None \/ detections = <<>>) =>
        /\ pc = "nms" => (nms_out # None /\ nms_out = <<>>)
        /\ pc = "prio" => (prio_out # None /\ prio_out = <<>>)
        /\ pc = "fused" => (fused # None /\ fused = <<>>)

\* a missing list (None) went through simple_nms and custom_priority
C18_Witness ==
    /\ pc = "fused"
    /\ detections = None
    /\ nms_out = <<>>

\* position of detection d in the list handed to simple_nms
InputIndex(d) == CHOOSE k \in 1..Len(detections) : detections[k] = d

\* C24: for a non-empty input of simple_nms a detection of maximal
\* confidence survives, and every discarded detection has IoU of at least
\* the threshold with some kept detection of at least its confidence.
C24_NmsDiscardsOnlyWithKeptWitness ==
    (pc = "nms" /\ detections # None /\ detections # <<>>) =>
        /\ \E k \in Elems(nms_out) : \A d \in Elems(detections) : k.conf >= d.conf
        /\ \A d \in Elems(detections) :
              d \notin Elems(nms_out) =>
                  \E k \in Elems(nms_out) :
                      /\ k.id # d.id
                      /\ k.conf >= d.conf
                      /\ RatGe(IouOf(k, d), NMS_IOU_THRESH)

\* the first detection of the input is discarded in favour of a later one
\* of higher confidence
C24_Witness ==
    /\ pc = "nms"
    /\ detections # None
    /\ Len(detections) >= 2
    /\ detections[1] \notin Elems(nms_out)
    /\ \E k \in Elems(nms_out) : k.conf > detections[1].conf

\* C25: the output of simple_nms holds only input detections, unmodified
\* and none twice, in order of non-increasing confidence, detections of
\* equal confidence in their input order.
C25_NmsOutputIsOrderedSublist ==
    (pc = "nms" /\ detections # None) =>
        /\ \A i \in 1..Len(nms_out) : nms_out[i] \in Elems(detections)
        /\ \A i, j \in 1..Len(nms_out) :
              i < j =>
                  /\ nms_out[i] # nms_out[j]
                  /\ nms_out[i].conf >= nms_out[j].conf
                  /\ nms_out[i].conf = nms_out[j].conf
                        => InputIndex(nms_out[i]) < InputIndex(nms_out[j])

\* two detections of equal confidence are kept behind one of higher
\* confidence that came last in the input
C25_Witness ==
    /\ pc = "nms"
    /\ detections # None
    /\ Len(detections) = 3
    /\ Len(nms_out) = 3
    /\ detections[1].conf = detections[2].conf
    /\ detections[3].conf > detections[1].conf

-----------------------------------------------------------------------------
(* Properties of any sequence of calls *)

-----------------------------------------------------------------------------
(* iou on its own: two well-formed boxes are drawn and iou is called on    *)
(* them in both orders                                                     *)

\* boxes with x1 < x2 and y1 < y2 on the grid 0..MaxCoord
WellFormedBoxes ==
    { b \in (0..MaxCoord) \X (0..MaxCoord) \X (0..MaxCoord) \X (0..MaxCoord) :
        b[1] < b[3] /\ b[2] < b[4] }

InitIou ==
    /\ pc = "boxes"
    /\ boxA \in WellFormedBoxes
    /\ boxB \in WellFormedBoxes
    /\ iou_ab = NoValue
    /\ iou_ba = NoValue
    /\ FusionIdle
    /\ AnnotateIdle
    /\ tables = StartTables
    /\ DecideIdle
    /\ StoreIdle

Iou ==
    /\ pc = "boxes"
    /\ iou_ab' = iou(boxA, boxB)
    /\ iou_ba' = iou(boxB, boxA)
    /\ pc' = "iou"
    /\ UNCHANGED <<boxA, boxB, fusionVars, annotateVars, decideVars, storeVars>>

NextIou == Iou

SpecIou == InitIou /\ [][NextIou]_vars

\* C26: for well-formed boxes iou is symmetric, lies in [0, 1], is 1 for
\* identical boxes and 0 for boxes that are disjoint or only touch along an
\* edge or at a corner.
C26_IouSymmetricAndBounded ==
    pc = "iou" =>
        /\ iou_ab = iou_ba
        /\ iou_ab.d > 0 /\ 0 <= iou_ab.n /\ iou_ab.n <= iou_ab.d
        /\ boxA = boxB => iou_ab.n = iou_ab.d
        /\ (\/ boxA[3] <= boxB[1] \/ boxB[3] <= boxA[1]
            \/ boxA[4] <= boxB[2] \/ boxB[4] <= boxA[2]) => iou_ab.n = 0

\* two boxes that share exactly one corner point
C26_Witness ==
    /\ pc = "iou"
    /\ boxA[3] = boxB[1]
    /\ boxA[4] = boxB[2]
    /\ iou_ab.n = 0
    /\ iou_ba.n = 0

-----------------------------------------------------------------------------
(* Navigation decision engine, decide(annotated_detections).  An          *)
(* annotated detection is a record [id, conf, area, distance, position],   *)
(* its distance a rational number of metres or None, like the thresholds.  *)

\* detections the engine acts on: confident enough and large enough
Retained(dets, pol) ==
    SelectSeq(dets, LAMBDA d : d.conf >= pol.min_conf /\ d.area >= pol.min_area)

\* the closest obstacle of a bucket: minimum distance among the retained
\* detections of the bucket that have a distance; the first of them on a tie
Closest(kept, bucket) ==
    LET measured == SelectSeq(kept, LAMBDA d : d.position = bucket
                                                /\ d.distance # NoValue)
    IN  IF measured = <<>> THEN NoValue
        ELSE measured[CHOOSE i \in 1..Len(measured) :
                         /\ \A j \in 1..Len(measured) :
                               RatLeq(measured[i].distance, measured[j].distance)
                         /\ \A j \in 1..(i - 1) :
                               RatLess(measured[i].distance, measured[j].distance)]

\* the caution threshold tested before the stop threshold
CenterCommandCautionFirst(c, pol) ==
    IF c = NoValue THEN "none"
    ELSE IF RatLess(c.distance, pol.caution) THEN "slow"
    ELSE IF RatLess(c.distance, pol.stop) THEN "stop"
    ELSE "none"

\* rules 1 and 2 of the policy, on the closest center obstacle
CenterCommand(c, pol) ==
    IF c = NoValue THEN "none"
    ELSE IF RatLess(c.distance, pol.stop) THEN "stop"
    ELSE IF RatLess(c.distance, pol.caution) THEN "slow"
    ELSE "none"

\* a turn toward the occupied side
VeerToward(side) == IF side = "left" THEN "turn left" ELSE "turn right"

\* rule 3: the turn that leads away from the occupied side
VeerAway(side) == IF side = "left" THEN "turn right" ELSE "turn left"

decide(dets, pol) ==
    LET kept == Retained(dets, pol)
        c == Closest(kept, "center")
        l == Closest(kept, "left")
        r == Closest(kept, "right")
        l_near == l # NoValue /\ RatLess(l.distance, pol.caution)
        r_near == r # NoValue /\ RatLess(r.distance, pol.caution)
    IN  IF CenterCommand(c, pol) # "none"
        THEN [command |-> CenterCommand(c, pol), reason |-> c]
        ELSE IF l_near /\ (~r_near \/ RatLeq(l.distance, r.distance))
        THEN [command |-> VeerAway("left"), reason |-> l]
        ELSE IF r_near
        THEN [command |-> VeerAway("right"), reason |-> r]
        ELSE [command |-> "proceed", reason |-> NoValue]

\* thresholds with stop < caution; the stop threshold 0.5 m is the one of
\* the worked example
Policies ==
    { [stop |-> Rat(1, 2), caution |-> Rat(3, 2), min_conf |-> 50, min_area |-> 100],
      [stop |-> Rat(1, 1), caution |-> Rat(3, 1), min_conf |-> 50, min_area |-> 100] }

\* annotated detections: 0.3 m, 1.0 m, 3.0 m or no distance in each bucket,
\* and one too faint and one too small detection at 0.3 m in each bucket
AnnotatedPool ==
    [conf : {90}, area : {5000},
     distance : {Rat(3, 10), Rat(1, 1), Rat(3, 1), NoValue},
     position : {"left", "center", "right"}]
    \cup [conf : {30}, area : {5000}, distance : {Rat(3, 10)},
          position : {"left", "center", "right"}]
    \cup [conf : {90}, area : {50}, distance : {Rat(3, 10)},
          position : {"left", "center", "right"}]

InitDecide ==
    /\ pc = "observing"
    /\ annotated = <<>>
    /\ policy \in Policies
    /\ command = NoValue
    /\ FusionIdle
    /\ AnnotateIdle
    /\ tables = StartTables
    /\ StoreIdle
    /\ IouIdle

\* one more annotated detection of the frame
Observe ==
    /\ pc = "observing"
    /\ Len(annotated) < MaxObstacles
    /\ \E a \in AnnotatedPool :
          annotated' = Append(annotated,
                              [id |-> Len(annotated) + 1, conf |-> a.conf,
                               area |-> a.area, distance |-> a.distance,
                               position |-> a.position])
    /\ UNCHANGED <<pc, policy, command, fusionVars, annotateVars, storeVars, iouVars>>

Decide ==
    /\ pc = "observing"
    /\ command' = decide(annotated, policy)
    /\ pc' = "decided"
    /\ UNCHANGED <<annotated, policy, fusionVars, annotateVars, storeVars, iouVars>>

NextDecide == Observe \/ Decide

SpecDecide == InitDecide /\ [][NextDecide]_vars

-----------------------------------------------------------------------------
(* Properties of the decision engine *)

\* the obstacles of a bucket: detections of the annotated list that pass the
\* engine's confidence and area floors and carry a distance
Obstacles(bucket) ==
    { d \in { annotated[i] : i \in 1..Len(annotated) } :
        /\ d.conf >= policy.min_conf
        /\ d.area >= policy.min_area
        /\ d.distance # NoValue
        /\ d.position = bucket }

\* d is strictly nearer than e
Nearer(d, e) == d.distance.n * e.distance.d < e.distance.n * d.distance.d

Within(bucket, threshold) ==
    { d \in Obstacles(bucket) : d.distance.n * threshold.d < threshold.n * d.distance.d }

\* C21: a center obstacle closer than the stop threshold gives "stop" with
\* such an obstacle as reason, whatever is in the left and right buckets;
\* otherwise a center obstacle closer than the caution threshold gives
\* "slow" with it as reason, before any side obstacle is considered.
C21_CenterObstacleDecidesFirst ==
    pc = "decided" =>
        /\ Within("center", policy.stop) # {} =>
              /\ command.command = "stop"
              /\ command.reason \in Within("center", policy.stop)
        /\ (Within("center", policy.stop) = {} /\ Within("center", policy.caution) # {}) =>
              /\ command.command = "slow"
              /\ command.reason \in Within("center", policy.caution)

\* "stop" is commanded for a center obstacle although both side buckets
\* hold an obstacle that is at least as near
C21_Witness ==
    /\ pc = "decided"
    /\ command.command = "stop"
    /\ \E l \in Obstacles("left") : ~Nearer(command.reason, l)
    /\ \E r \in Obstacles("right") : ~Nearer(command.reason, r)

\* C22: with no center obstacle within the caution threshold and one in a
\* side bucket the command is a turn away from the occupied side, the side
\* of the nearer obstacle when both are occupied; with no detection at all
\* the command is "proceed".
C22_VeerAwayFromOccupiedSide ==
    pc = "decided" =>
        /\ annotated = <<>> => command.command = "proceed"
        /\ Within("center", policy.caution) = {} =>
              LET ls == Within("left", policy.caution)
                  rs == Within("right", policy.caution)
              IN  /\ (ls # {} /\ rs = {}) => command.command = "turn right"
                  /\ (rs # {} /\ ls = {}) => command.command = "turn left"
                  /\ (ls # {} /\ \A r \in rs : \E l \in ls : Nearer(l, r))
                        => command.command = "turn right"
                  /\ (rs # {} /\ \A l \in ls : \E r \in rs : Nearer(r, l))
                        => command.command = "turn left"
                  /\ (ls # {} \/ rs # {})
                        => command.command \in {"turn left", "turn right"}

\* both sides are occupied within the caution threshold, the right one
\* nearer, the center obstacle is beyond it: turn left
C22_Witness ==
    /\ pc = "decided"
    /\ Obstacles("center") # {}
    /\ Within("center", policy.caution) = {}
    /\ \E l \in Within("left", policy.caution), r \in Within("right", policy.caution) :
          Nearer(r, l)
    /\ command.command = "turn left"

-----------------------------------------------------------------------------
(* The bill store: services/bill_service.py, services/wallet_service.py,   *)
(* their routes, and the tables of app/models/database.py.                 *)
(* A bills row is [id, vendor, total_amount, bill_date, confirmed]; a      *)
(* transactions row is [id, type, amount, bill_id], bill_id 0 standing for *)
(* NULL (AUTOINCREMENT ids start at 1).  Amounts are whole rupees.         *)

NULL == "NULL"              \* SQL NULL / Python None in a text column
Missing == "<missing>"      \* the key 'date' absent from bill_info

\* SQL `a = b`: never true when either side is NULL
SqlEq(a, b) == a # NULL /\ b # NULL /\ a = b

\* bill_info.get('date', '')
bill_date_of(bill_info) ==
    IF bill_info.date = Missing THEN "" ELSE bill_info.date

\* SELECT id FROM bills WHERE vendor = ? AND total_amount = ? AND bill_date = ?
existing_bills(rows, vendor, total_amount, bill_date) ==
    SelectSeq(rows, LAMBDA b : /\ SqlEq(b.vendor, vendor)
                               /\ b.total_amount = total_amount
                               /\ SqlEq(b.bill_date, bill_date))

\* UNIQUE(vendor, total_amount, bill_date): an insert is rejected when a row
\* with the same three values exists, NULLs counting as distinct
violates_unique(rows, vendor, total_amount, bill_date) ==
    existing_bills(rows, vendor, total_amount, bill_date) # <<>>

\* SELECT * FROM bills WHERE id = ?
bills_with_id(rows, bill_id) == SelectSeq(rows, LAMBDA b : b.id = bill_id)

\* the UPDATE committed although the INSERT of the expense was rejected
confirm_write_marks_on_failure(rows, txs, bill, bill_id) ==
    IF bill.total_amount > 0
    THEN [bills |-> [i \in 1..Len(rows) |->
                        IF rows[i].id = bill_id
                        THEN [rows[i] EXCEPT !.confirmed = 1] ELSE rows[i]],
          transactions |-> Append(txs, [id |-> Len(txs) + 1, type |-> "expense",
                                        amount |-> bill.total_amount,
                                        bill_id |-> bill_id]),
          success |-> TRUE]
    ELSE [bills |-> [i \in 1..Len(rows) |->
                        IF rows[i].id = bill_id
                        THEN [rows[i] EXCEPT !.confirmed = 1] ELSE rows[i]],
          transactions |-> txs, success |-> FALSE]

\* confirm_bill from the INSERT to the commit: the expense row is inserted
\* unless CHECK(amount > 0) rejects it, then the bill is marked confirmed and
\* both are committed; a rejected INSERT raises before anything is committed
confirm_write(rows, txs, bill, bill_id) ==
    IF bill.total_amount > 0
    THEN [bills |-> [i \in 1..Len(rows) |->
                        IF rows[i].id = bill_id
                        THEN [rows[i] EXCEPT !.confirmed = 1] ELSE rows[i]],
          transactions |-> Append(txs, [id |-> Len(txs) + 1, type |-> "expense",
                                        amount |-> bill.total_amount,
                                        bill_id |-> bill_id]),
          success |-> TRUE]
    ELSE [bills |-> rows, transactions |-> txs, success |-> FALSE]

RECURSIVE SumSigned(_)
\* SUM(CASE WHEN type = 'income' THEN amount ELSE -amount END)
SumSigned(txs) ==
    IF txs = <<>> THEN 0
    ELSE (IF Head(txs).type = "income" THEN Head(txs).amount ELSE -Head(txs).amount)
         + SumSigned(Tail(txs))

RECURSIVE SumAmounts(_)
SumAmounts(txs) ==
    IF txs = <<>> THEN 0 ELSE Head(txs).amount + SumAmounts(Tail(txs))

\* every amount added, whatever the type
get_balance_unsigned(txs) ==
    IF txs = <<>> THEN 0 ELSE SumAmounts(txs)

\* result[0][0] if result and result[0][0] else 0.0: the SUM is NULL over an
\* empty table, and NULL and 0 both give 0.0
get_balance(txs) ==
    IF txs = <<>> THEN 0 ELSE SumSigned(txs)

\* bill_info as posted to /api/bill/save
BillInfos ==
    [vendor : {"Keells"}, total_amount : {250},
     date : {"2024-01-05", "", Missing, NULL}]
    \cup [vendor : {"Keells"}, total_amount : {0}, date : {"2024-01-05"}]

\* amount and type as posted to /api/wallet/transaction
TransactionInputs ==
    { [amount |-> 100, type |-> "income"], [amount |-> 100, type |-> "expense"],
      [amount |-> 0, type |-> "income"], [amount |-> 100, type |-> "gift"] }

NoBill == [id |-> 0, vendor |-> NULL, total_amount |-> 0, bill_date |-> NULL,
           confirmed |-> 0]
NoBillInfo == [vendor |-> NULL, total_amount |-> 0, date |-> NULL]

InitStore ==
    /\ pc = "serving"
    /\ bills = <<>>
    /\ transactions = <<>>
    /\ requests = <<>>
    /\ FusionIdle
    /\ AnnotateIdle
    /\ tables = StartTables
    /\ DecideIdle
    /\ IouIdle

StoreFrame == UNCHANGED <<pc, fusionVars, annotateVars, decideVars, iouVars>>

\* save_bill up to the duplicate check: an existing row's id is returned,
\* otherwise the request goes on to the INSERT
SaveBillCheck ==
    /\ pc = "serving"
    /\ Len(requests) < MaxRequests
    /\ \E bill_info \in BillInfos :
          LET existing == existing_bills(bills, bill_info.vendor,
                                         bill_info.total_amount,
                                         bill_date_of(bill_info))
          IN  requests' = Append(requests,
                  [op |-> "save_bill", bill_info |-> bill_info, bill_id |-> 0,
                   bill |-> NoBill,
                   pc |-> IF existing # <<>> THEN "done" ELSE "insert",
                   success |-> existing # <<>>,
                   inserted |-> FALSE,
                   returned |-> IF existing # <<>> THEN existing[1].id ELSE 0])
    /\ UNCHANGED <<bills, transactions>>
    /\ StoreFrame

\* save_bill's INSERT: execute_insert returns the new id, or None when the
\* UNIQUE constraint rejects the row
SaveBillInsert ==
    /\ pc = "serving"
    /\ \E i \in 1..Len(requests) :
          /\ requests[i].op = "save_bill"
          /\ requests[i].pc = "insert"
          /\ LET bill_info == requests[i].bill_info
                 rejected == violates_unique(bills, bill_info.vendor,
                                             bill_info.total_amount,
                                             bill_date_of(bill_info))
                 new_id == Len(bills) + 1
             IN  /\ bills' = IF rejected THEN bills
                             ELSE Append(bills,
                                    [id |-> new_id, vendor |-> bill_info.vendor,
                                     total_amount |-> bill_info.total_amount,
                                     bill_date |-> bill_date_of(bill_info),
                                     confirmed |-> 0])
                 /\ requests' = [requests EXCEPT
                        ![i].pc = "done",
                        ![i].success = ~rejected,
                        ![i].inserted = ~rejected,
                        ![i].returned = IF rejected THEN 0 ELSE new_id]
    /\ UNCHANGED transactions
    /\ StoreFrame

\* confirm_bill up to the test of the confirmed flag
ConfirmBillRead ==
    /\ pc = "serving"
    /\ Len(requests) < MaxRequests
    /\ \E bill_id \in 1..MaxRequests :
          LET found == bills_with_id(bills, bill_id)
              answered == found = <<>> \/ found[1].confirmed = 1
          IN  requests' = Append(requests,
                  [op |-> "confirm_bill", bill_info |-> NoBillInfo,
                   bill_id |-> bill_id,
                   bill |-> IF found = <<>> THEN NoBill ELSE found[1],
                   pc |-> IF answered THEN "done" ELSE "write",
                   success |-> FALSE,
                   inserted |-> FALSE,
                   returned |-> 0])
    /\ UNCHANGED <<bills, transactions>>
    /\ StoreFrame

\* confirm_bill from the INSERT of the expense to the commit
ConfirmBillWrite ==
    /\ pc = "serving"
    /\ \E i \in 1..Len(requests) :
          /\ requests[i].op = "confirm_bill"
          /\ requests[i].pc = "write"
          /\ LET w == confirm_write(bills, transactions, requests[i].bill,
                                    requests[i].bill_id)
             IN  /\ bills' = w.bills
                 /\ transactions' = w.transactions
                 /\ requests' = [requests EXCEPT ![i].pc = "done",
                                                 ![i].success = w.success,
                                                 ![i].inserted = w.success]
    /\ StoreFrame

\* POST /api/wallet/transaction: type and amount are validated, then
\* WalletService.add_transaction inserts the row
AddTransaction ==
    /\ pc = "serving"
    /\ Len(requests) < MaxRequests
    /\ \E data \in TransactionInputs :
          LET valid == data.type \in {"income", "expense"} /\ data.amount > 0
          IN  /\ transactions' =
                    IF valid
                    THEN Append(transactions,
                                [id |-> Len(transactions) + 1, type |-> data.type,
                                 amount |-> data.amount, bill_id |-> 0])
                    ELSE transactions
              /\ requests' = Append(requests,
                    [op |-> "add_transaction", bill_info |-> NoBillInfo,
                     bill_id |-> 0, bill |-> NoBill, pc |-> "done",
                     success |-> valid, inserted |-> valid, returned |-> 0])
    /\ UNCHANGED bills
    /\ StoreFrame

NextStore ==
    \/ SaveBillCheck \/ SaveBillInsert
    \/ ConfirmBillRead \/ ConfirmBillWrite
    \/ AddTransaction

SpecStore == InitStore /\ [][NextStore]_vars

-----------------------------------------------------------------------------
(* Properties of the bill store *)

\* request i has been answered by the step just taken
AnsweredNow(i) ==
    /\ requests'[i].pc = "done"
    /\ (i > Len(requests) \/ requests[i].pc # "done")

SameTriple(a, b) ==
    /\ a.vendor = b.vendor
    /\ a.total_amount = b.total_amount
    /\ a.bill_date = b.bill_date

\* C27 (as stated): in every reachable state of the bill store at most one
\* expense transaction is linked to any bill id, also when two confirm_bill
\* requests for the same bill interleave between the read of the confirmed
\* flag and the insert.
C27_AtMostOneExpensePerBill ==
    pc = "serving" =>
        \A i, j \in 1..Len(transactions) :
            (i # j /\ transactions[i].bill_id # 0)
                => transactions[i].bill_id # transactions[j].bill_id

\* C28: whenever confirm_bill returns success = False (bill not found, bill
\* already confirmed, or the expense insert rejected) the bills and
\* transactions tables are left as they were.
C28_FailedConfirmChangesNothing ==
    [][ \A i \in 1..Len(requests') :
           (requests'[i].op = "confirm_bill" /\ AnsweredNow(i) /\ ~requests'[i].success)
               => (bills' = bills /\ transactions' = transactions) ]_vars

\* a confirm_bill that found its bill unconfirmed has failed at the INSERT,
\* the bill's total_amount being 0; the bill is still unconfirmed
C28_Witness ==
    /\ pc = "serving"
    /\ \E i \in 1..Len(requests) :
          /\ requests[i].op = "confirm_bill"
          /\ requests[i].pc = "done"
          /\ ~requests[i].success
          /\ requests[i].bill.id # 0
          /\ requests[i].bill.confirmed = 0
          /\ requests[i].bill.total_amount <= 0
          /\ bills[requests[i].bill_id].confirmed = 0

\* C29 (as stated): the bills table never holds two rows with the same
\* (vendor, total_amount, bill_date), and a save_bill whose triple is stored
\* returns the id of the existing row without inserting, for every
\* bill_info, including one with an empty or missing date.
C29_NoTwoBillsWithSameTriple ==
    pc = "serving" =>
        /\ \A i, j \in 1..Len(bills) : i # j => ~SameTriple(bills[i], bills[j])
        /\ \A k \in 1..Len(requests) :
              (requests[k].op = "save_bill" /\ requests[k].pc = "done"
                 /\ requests[k].success)
              => /\ requests[k].returned \in 1..Len(bills)
                 /\ \A i \in 1..Len(bills) :
                       (/\ bills[i].vendor = requests[k].bill_info.vendor
                        /\ bills[i].total_amount = requests[k].bill_info.total_amount
                        /\ bills[i].bill_date = bill_date_of(requests[k].bill_info))
                       => bills[i].id = requests[k].returned

RECURSIVE TotalOf(_, _)
\* sum of the amounts of the first n transactions that have the given type
TotalOf(type, n) ==
    IF n = 0 THEN 0
    ELSE TotalOf(type, n - 1)
         + (IF transactions[n].type = type THEN transactions[n].amount ELSE 0)

\* C30: get_balance equals the sum of the income amounts minus the sum of
\* the expense amounts recorded (0 with no transactions), and each
\* successful confirm_bill lowers it by exactly the bill's total_amount.
C30_BalanceIsIncomeMinusExpense ==
    /\ [](pc = "serving" =>
            get_balance(transactions)
              = TotalOf("income", Len(transactions)) - TotalOf("expense", Len(transactions)))
    /\ [][ \A i \in 1..Len(requests') :
              (requests'[i].op = "confirm_bill" /\ AnsweredNow(i) /\ requests'[i].success)
                  => get_balance(transactions')
                       = get_balance(transactions) - requests'[i].bill.total_amount ]_vars

\* an income of 100 and a confirmed bill of 250 leave a balance of -150
C30_Witness ==
    /\ pc = "serving"
    /\ \E i \in 1..Len(requests) :
          requests[i].op = "confirm_bill" /\ requests[i].success
    /\ \E t \in 1..Len(transactions) : transactions[t].type = "income"
    /\ get_balance(transactions) = 100 - 250

====
